---- MODULE Spec2Model ----
(***************************************************************************)
(* The two demo HTTP services api-service-1 and api-service-2: the logging *)
(* middleware, the route handlers and the response lifecycle, as the Node  *)
(* event loop runs them.  One action is one event-loop turn: the code      *)
(* between two awaits / callbacks runs to completion.                      *)
(***************************************************************************)
EXTENDS Integers, Sequences, FiniteSets, TLC

\* ------------------------------------------------------------------ bounds
MaxReq == 2        \* requests accepted in one behaviour
MaxNow == 0        \* the clock runs freely up to here, then only towards a pending timer
TickMs == 1000     \* granularity of the clock, in ms
RandDen == 5       \* Math.random() is k / RandDen, 0 <= k < RandDen

\* ------------------------------------------------------ JavaScript values
Undefined == [t |-> "undefined", s |-> <<>>, n |-> 0]
Str(x) == [t |-> "string", s |-> x, n |-> 0]
Num(k) == [t |-> "number", s |-> <<>>, n |-> k]

Truthy(v) ==
    CASE v.t = "string" -> v.s # <<>>
      [] v.t = "number" -> v.n # 0
      [] OTHER -> FALSE

\* a || b
Or(a, b) == IF Truthy(a) THEN a ELSE b

\* Number.prototype.toString(36) of a random value in [0, 1), given by the
\* base-36 digits of its fraction (no trailing zero; <<>> is the value 0).
ToString36(digits) == IF digits = <<>> THEN <<"0">> ELSE <<"0", ".">> \o digits

\* String.prototype.substring(from)
Substring(str, from) == SubSeq(str, from + 1, Len(str))

\* the values Math.random() is drawn from when an identifier is generated
Random36 == {<<>>, <<"i">>}

\* the values req.get('X-Request-ID') returns
Headers == {Undefined, Str(<<>>), Str(<<"a", "b", "c">>)}

\* const requestId = req.get('X-Request-ID') || Math.random().toString(36).substring(2)
RequestId(header, digits) == Or(header, Str(Substring(ToString36(digits), 2)))

\* ---------------------------------------------------------------- routes
S1 == "api-service-1"
S2 == "api-service-2"
Services == {S1, S2}

delays == <<100, 200, 500, 1000, 3000>>

\* Math.floor(Math.random() * delays.length), with Math.random() = k / RandDen
DelayIndex(k) == (k * Len(delays)) \div RandDen

\* Math.random() < p / 10
RandomBelow(k, p) == k * 10 < p * RandDen

PeerRoute(svc) == IF svc = S1 THEN "/test-service-2" ELSE "/test-service-1"


\* ----------------------------------------------------------------- state
VARIABLES
    now,     \* Date.now(), in ms since the model starts
    reqs,    \* per request: the closure of its middleware invocation and its res
    log,     \* per service: the lines written by console.log, in order
    hist,    \* per service: the observations of http_request_duration_seconds
    env      \* what the environment may do: faults injected, the express major version

vars == <<now, reqs, log, hist, env>>

Reqs == 1 .. MaxReq

Utf8 == Str(<<"utf8">>)
Body(text, k) == [text |-> text, n |-> k]

IdleReq ==
    [pc |-> "idle", svc |-> S1, route |-> "/", header |-> Undefined,
     requestId |-> Undefined, taskId |-> Undefined, start |-> 0, delay |-> 0,
     statusCode |-> 200, fault |-> FALSE, sent |-> <<>>, delivered |-> <<>>]

\* one console.log(JSON.stringify({...})) line; req is the request being
\* served (not a field of the line), statusCode 0 and requestId Undefined
\* are fields the line does not have (JSON.stringify drops undefined).
Ev(level, message, r, rid, status, t) ==
    [level |-> level, message |-> message, req |-> r, requestId |-> rid,
     statusCode |-> status, timestamp |-> t]

StartedEvent(r, rid, t) == Ev("info", "Request started", r, rid, 0, t)

\* a faulty override: the completion line is written twice
CompletedEvent1MutTwice(r, rid, status, t) ==
    <<Ev("info", "Request completed", r, rid, status, t),
      Ev("info", "Request completed", r, rid, status, t)>>

\* api-service-1, the line written by the res.end override
CompletedEvent1(r, rid, status, t) ==
    <<Ev("info", "Request completed", r, rid, status, t)>>

\* api-service-2, the line written by the 'finish' listener: no requestId field
CompletedEvent2(r, rid, status, t) ==
    <<Ev("info", "Request completed", r, Undefined, status, t)>>

\* the middleware up to next(): the closure (start, requestId) and the start line
Middleware(r, svc, route, header, digits, t) ==
    LET rid == RequestId(header, digits) IN
    [q |-> [IdleReq EXCEPT !.pc = "handler", !.svc = svc, !.route = route,
                           !.header = header, !.requestId = rid, !.start = t],
     ev |-> <<StartedEvent(r, rid, t)>>]

\* a faulty override: the encoding is not passed on
OriginalEndArgsMutDropEncoding(chunk, encoding) == <<chunk, Undefined>>

\* originalEnd.call(this, chunk, encoding)
OriginalEndArgs(chunk, encoding) == <<chunk, encoding>>

\* res.end(chunk, encoding) as the handler (or the framework on its behalf)
\* calls it.  api-service-1: the override writes the completion line, then
\* calls originalEnd; if writing raises (ok = FALSE), originalEnd is not
\* reached and the exception goes to the caller.  api-service-2: the
\* original res.end; the completion line waits for 'finish'.
ResEnd(q, r, chunk, encoding, t, ok) ==
    LET call == [status |-> q.statusCode, args |-> <<chunk, encoding>>] IN
    IF q.svc = S1
    THEN IF ok
         THEN [q |-> [q EXCEPT !.pc = "done",
                               !.sent = Append(@, call),
                               !.delivered = Append(@, [status |-> q.statusCode,
                                                         args |-> OriginalEndArgs(chunk, encoding)])],
               ev |-> CompletedEvent1(r, q.requestId, q.statusCode, t)]
         ELSE [q |-> [q EXCEPT !.pc = "aborted", !.sent = Append(@, call)],
               ev |-> <<>>]
    ELSE [q |-> [q EXCEPT !.pc = "flushing",
                          !.sent = Append(@, call),
                          !.delivered = Append(@, [status |-> q.statusCode,
                                                    args |-> <<chunk, encoding>>])],
          ev |-> <<>>]

\* res.status(code)
ResStatus(q, code) == [q EXCEPT !.statusCode = code]

\* res.json(obj) and res.send(text): the framework serialises and calls
\* this.end(chunk, 'utf8')
ResSend(q, r, body, t, ok) == ResEnd(q, r, body, Utf8, t, ok)

SinkOutcomes == IF env.sinkFaults THEN BOOLEAN ELSE {TRUE}
ThrowOutcomes == IF env.handlerFaults THEN BOOLEAN ELSE {FALSE}
SettleOutcomes == IF env.handlerFaults THEN {"resolve", "reject"} ELSE {"resolve"}

\* the framework's answer to a fault that reached it: status 500, an error page
ErrorResponse(q, r, t, ok) == ResSend(ResStatus(q, 500), r, Body("Internal Server Error", 0), t, ok)

\* requests are accepted in the order of their index
Accepts(r) == reqs[r].pc = "idle" /\ \A j \in 1 .. (r - 1) : reqs[j].pc # "idle"

InitWith(e) ==
    /\ now = 0
    /\ reqs = [r \in Reqs |-> IdleReq]
    /\ log = [s \in Services |-> <<>>]
    /\ hist = [s \in Services |-> <<>>]
    /\ env \in e

ExpressMajors == {4, 5}

Init == InitWith({[handlerFaults |-> FALSE, sinkFaults |-> FALSE, express |-> x] : x \in ExpressMajors})


\* ---------------------------------------------------------------- actions
Emit(svc, lines) == log' = [log EXCEPT ![svc] = @ \o lines]

\* a faulty timer: the callback may run before the delay has passed
TimerDueMutAlways(q, t) == TRUE

\* the timer set by setTimeout(cb, delay) at q.start has expired at t
TimerDue(q, t) == t >= q.start + q.delay

\* GET /heavy-task, up to setTimeout
HeavyTask(r) ==
    /\ Accepts(r)
    /\ \E header \in Headers, digits \in Random36, k \in 0 .. (RandDen - 1) :
          LET m == Middleware(r, S1, "/heavy-task", header, digits, now)
              delay == delays[DelayIndex(k) + 1]
              taskId == Num(now)
          IN  /\ reqs' = [reqs EXCEPT ![r] = [m.q EXCEPT !.pc = "timer", !.delay = delay,
                                                         !.taskId = taskId]]
              /\ Emit(S1, m.ev \o <<Ev("info", "Starting heavy task", r, taskId, 0, now)>>)
    /\ UNCHANGED <<now, hist, env>>

\* the body of the setTimeout callback: the lines written and the response sent
HeavyTaskOutcome(q, r, k, t, ok) ==
    IF RandomBelow(k, 2)
    THEN LET e == ResSend(ResStatus(q, 500), r, Body("Internal Server Error", 0), t, ok)
         IN  [q |-> e.q,
              ev |-> <<Ev("error", "Heavy task failed", r, q.taskId, 500, t)>> \o e.ev]
    ELSE LET e == ResSend(q, r, Body("Completed in", q.delay), t, ok)
         IN  [q |-> e.q,
              ev |-> <<Ev("info", "Heavy task completed", r, q.taskId, 200, t)>> \o e.ev]

\* GET /heavy-task, the setTimeout callback
HeavyTaskTimeout(r) ==
    /\ reqs[r].pc = "timer"
    /\ TimerDue(reqs[r], now)
    /\ \E k \in 0 .. (RandDen - 1), ok \in SinkOutcomes :
          LET o == HeavyTaskOutcome(reqs[r], r, k, now, ok)
          IN  /\ reqs' = [reqs EXCEPT ![r] = o.q]
              /\ Emit(S1, o.ev)
    /\ UNCHANGED <<now, hist, env>>

\* GET /test-service-2 (api-service-1) and GET /test-service-1 (api-service-2),
\* up to await axios.get(...)
TestService(r) ==
    /\ Accepts(r)
    /\ \E svc \in Services, header \in Headers, digits \in Random36 :
          LET m == Middleware(r, svc, PeerRoute(svc), header, digits, now)
          IN  /\ reqs' = [reqs EXCEPT ![r] = [m.q EXCEPT !.pc = "peer"]]
              /\ Emit(svc, m.ev \o <<Ev("info", "Initiating call", r, Undefined, 0, now),
                                     Ev("debug", "Sending request", r, Undefined, 0, now)>>)
    /\ UNCHANGED <<now, hist, env>>

Observation(route) == [method |-> "GET", route |-> route, status_code |-> "200"]

\* a faulty handler: observe is called whether or not the call succeeded
PeerObservationsMutAlways(q, peerOk) == <<Observation(q.route)>>

\* httpRequestDuration.labels("GET", route, "200").observe(duration): in the
\* try block after the await, so only when the call to the peer succeeded
PeerObservations(q, peerOk) == IF peerOk THEN <<Observation(q.route)>> ELSE <<>>

\* the catch block of the peer-call routes
PeerCatch(q, r, t, ok) ==
    LET e == ResSend(ResStatus(q, 500), r, Body("Failed to call", 0), t, ok)
    IN  [q |-> e.q, ev |-> <<Ev("error", "Failed to call", r, Undefined, 0, t)>> \o e.ev]

\* the peer-call routes after the await: the try block, and the catch block
\* when axios.get rejected or when res.json raised (api-service-1, the
\* override's line could not be written)
PeerOutcome(q, r, peerOk, t, ok1, ok2) ==
    IF peerOk
    THEN LET e == ResSend(q, r, Body("Called peer", 0), t, ok1)
             line == <<Ev("info", "Successfully called", r, Undefined, 200, t)>>
         IN  IF e.q.pc = "aborted"
             THEN LET c == PeerCatch([e.q EXCEPT !.pc = "handler"], r, t, ok2)
                  IN  [q |-> c.q, ev |-> line \o c.ev]
             ELSE [q |-> e.q, ev |-> line \o e.ev]
    ELSE PeerCatch(q, r, t, ok1)

\* the peer answered (axios.get resolved) or the call failed (it rejected)
PeerSettle(r) ==
    /\ reqs[r].pc = "peer"
    /\ \E peerOk \in BOOLEAN, ok1 \in SinkOutcomes, ok2 \in SinkOutcomes :
          LET q == reqs[r]
              o == PeerOutcome(q, r, peerOk, now, ok1, ok2)
          IN  /\ reqs' = [reqs EXCEPT ![r] = o.q]
              /\ Emit(q.svc, o.ev)
              /\ hist' = [hist EXCEPT ![q.svc] = @ \o PeerObservations(q, peerOk)]
    /\ UNCHANGED <<now, env>>

\* GET /metrics, up to await register.metrics()
Metrics(r) ==
    /\ Accepts(r)
    /\ \E svc \in Services, header \in Headers, digits \in Random36 :
          LET m == Middleware(r, svc, "/metrics", header, digits, now)
          IN  /\ reqs' = [reqs EXCEPT ![r] = [m.q EXCEPT !.pc = "metrics"]]
              /\ Emit(svc, m.ev \o <<Ev(IF svc = S1 THEN "debug" ELSE "info",
                                        "Metrics endpoint called", r, Undefined, 0, now)>>)
    /\ UNCHANGED <<now, hist, env>>

\* GET /metrics after the await: res.end(text) when register.metrics()
\* resolved.  When it rejected, the async handler's promise rejects: express 5
\* passes the fault to its error handler (a 500), express 4 ignores the
\* promise, so that nothing is sent and process.on('unhandledRejection') runs.
MetricsOutcome(q, r, outcome, major, count, t, ok) ==
    IF outcome = "resolve"
    THEN ResEnd(q, r, Body("metrics", count), Undefined, t, ok)
    ELSE IF major = 5
         THEN ErrorResponse([q EXCEPT !.fault = TRUE], r, t, ok)
         ELSE [q |-> [q EXCEPT !.pc = "hung", !.fault = TRUE],
               ev |-> <<Ev("error", "Unhandled rejection", r, Undefined, 0, t)>>]

MetricsSettle(r) ==
    /\ reqs[r].pc = "metrics"
    /\ \E outcome \in SettleOutcomes, ok \in SinkOutcomes :
          LET q == reqs[r]
              o == MetricsOutcome(q, r, outcome, env.express, Len(hist[q.svc]), now, ok)
          IN  /\ reqs' = [reqs EXCEPT ![r] = o.q]
              /\ Emit(q.svc, o.ev)
    /\ UNCHANGED <<now, hist, env>>


\* a route whose handler answers in the turn that accepted the request; when
\* the handler raises instead, the framework answers for it
SyncOutcome(q, r, throws, lines, code, body, t, ok) ==
    IF throws
    THEN ErrorResponse([q EXCEPT !.fault = TRUE], r, t, ok)
    ELSE LET e == ResSend(ResStatus(q, code), r, body, t, ok)
         IN  [q |-> e.q, ev |-> lines \o e.ev]

Serve(r, svc, route, lines, code, body) ==
    \E header \in Headers, digits \in Random36, throws \in ThrowOutcomes, ok \in SinkOutcomes :
        LET m == Middleware(r, svc, route, header, digits, now)
            o == SyncOutcome(m.q, r, throws, lines, code, body, now, ok)
        IN  /\ reqs' = [reqs EXCEPT ![r] = o.q]
            /\ Emit(svc, m.ev \o o.ev)

\* GET /info (api-service-1)
Info(r) ==
    /\ Accepts(r)
    /\ Serve(r, S1, "/info", <<Ev("info", "Info endpoint called", r, Undefined, 0, now)>>,
             200, Body("API Service 1 1.0.0", 0))
    /\ UNCHANGED <<now, hist, env>>

\* GET / (both services)
Health(r) ==
    /\ Accepts(r)
    /\ \E svc \in Services :
          Serve(r, svc, "/", <<Ev("info", "Health check", r, Undefined, 0, now)>>,
                200, Body("is running", 0))
    /\ UNCHANGED <<now, hist, env>>

\* GET /compute (api-service-2)
Compute(r) ==
    /\ Accepts(r)
    /\ Serve(r, S2, "/compute",
             <<Ev("info", "Starting compute-heavy task", r, Undefined, 0, now),
               Ev("info", "Compute-heavy task completed", r, Undefined, 0, now)>>,
             200, Body("Computation completed", 0))
    /\ UNCHANGED <<now, hist, env>>

\* GET /random-fail (api-service-2): Math.random() < 0.3 fails
RandomFail(r) ==
    /\ Accepts(r)
    /\ \E k \in 0 .. (RandDen - 1) :
          IF RandomBelow(k, 3)
          THEN Serve(r, S2, "/random-fail",
                     <<Ev("info", "Random fail endpoint called", r, Undefined, 0, now),
                       Ev("error", "Random failure occurred", r, Undefined, 500, now)>>,
                     500, Body("Random failure occurred", 0))
          ELSE Serve(r, S2, "/random-fail",
                     <<Ev("info", "Random fail endpoint called", r, Undefined, 0, now),
                       Ev("info", "Random fail endpoint succeeded", r, Undefined, 200, now)>>,
                     200, Body("Success", 0))
    /\ UNCHANGED <<now, hist, env>>

\* api-service-2, the 'finish' listener, run by the runtime once the response
\* is handed to the transport; when writing its line raises, the exception
\* reaches process.on('uncaughtException')
FinishOutcome(q, r, t, ok) ==
    [q |-> [q EXCEPT !.pc = "done"],
     ev |-> IF ok
            THEN CompletedEvent2(r, q.requestId, q.statusCode, t)
            ELSE <<Ev("error", "Uncaught exception", r, Undefined, 0, t)>>]

Finish(r) ==
    /\ reqs[r].pc = "flushing"
    /\ \E ok \in SinkOutcomes :
          LET o == FinishOutcome(reqs[r], r, now, ok)
          IN  /\ reqs' = [reqs EXCEPT ![r] = o.q]
              /\ Emit(S2, o.ev)
    /\ UNCHANGED <<now, hist, env>>

\* time passes
Tick ==
    /\ \/ now < MaxNow
       \/ \E r \in Reqs : reqs[r].pc = "timer" /\ now < reqs[r].start + reqs[r].delay
    /\ now' = now + TickMs
    /\ UNCHANGED <<reqs, log, hist, env>>

Next ==
    \/ Tick
    \/ \E r \in Reqs : HeavyTask(r)
    \/ \E r \in Reqs : HeavyTaskTimeout(r)
    \/ \E r \in Reqs : TestService(r)
    \/ \E r \in Reqs : PeerSettle(r)
    \/ \E r \in Reqs : Metrics(r)
    \/ \E r \in Reqs : MetricsSettle(r)
    \/ \E r \in Reqs : Info(r)
    \/ \E r \in Reqs : Health(r)
    \/ \E r \in Reqs : Compute(r)
    \/ \E r \in Reqs : RandomFail(r)
    \/ \E r \in Reqs : Finish(r)

\* the services with reliable sinks and handlers that raise no unhandled fault
Spec == Init /\ [][Next]_vars

\* the event loop runs every callback that is ready: expired timers, settled
\* promises, 'finish' listeners; and time passes
Fairness ==
    /\ WF_vars(Tick)
    /\ \A r \in Reqs : WF_vars(HeavyTaskTimeout(r))
    /\ \A r \in Reqs : WF_vars(PeerSettle(r))
    /\ \A r \in Reqs : WF_vars(MetricsSettle(r))
    /\ \A r \in Reqs : WF_vars(Finish(r))

FairSpec == Init /\ [][Next]_vars /\ Fairness

\* handlers may raise an unhandled fault
InitFault == InitWith({[handlerFaults |-> TRUE, sinkFaults |-> FALSE, express |-> x] : x \in ExpressMajors})
SpecFault == InitFault /\ [][Next]_vars

\* writing the completion line may raise
InitSink == InitWith({[handlerFaults |-> FALSE, sinkFaults |-> TRUE, express |-> x] : x \in ExpressMajors})
SpecSink == InitSink /\ [][Next]_vars


\* ------------------------------------------------------------ the claims
Accepted(r) == reqs[r].pc # "idle"

\* the response of r is final: res.end was called and reached the original end
Finalized(r) == reqs[r].pc \in {"flushing", "done"}

\* the positions, in the log of r's service, of r's lines with this message
LinesOf(r, message) ==
    {i \in 1 .. Len(log[reqs[r].svc]) :
        /\ log[reqs[r].svc][i].req = r
        /\ log[reqs[r].svc][i].message = message}

Line(r, i) == log[reqs[r].svc][i]

Started(r) == LinesOf(r, "Request started")
Completed(r) == LinesOf(r, "Request completed")

\* C1, the part every state satisfies: an accepted request has exactly one
\* 'Request started' line and at most one 'Request completed' line, the start
\* line comes first and its timestamp is not later.
C1_StartThenComplete ==
    \A r \in Reqs :
        Accepted(r) =>
            /\ Cardinality(Started(r)) = 1
            /\ Cardinality(Completed(r)) <= 1
            /\ \A i \in Started(r), j \in Completed(r) :
                  i < j /\ Line(r, i).timestamp <= Line(r, j).timestamp

\* C1: for every request, in both services and under any interleaving, the
\* middleware writes exactly one 'Request started' line and, eventually and
\* from then on, exactly one 'Request completed' line after it, with a
\* timestamp that is not earlier.
C1_ExactlyOneStartAndCompletion ==
    /\ []C1_StartThenComplete
    /\ \A r \in Reqs : Accepted(r) ~> [](Cardinality(Completed(r)) = 1)

\* two requests of one service interleave: the second is accepted and
\* completed while the first waits, and the first completes later than it started
C1_Witness ==
    /\ reqs[1].svc = S1 /\ reqs[2].svc = S1
    /\ reqs[1].pc = "done" /\ reqs[2].pc = "done"
    /\ \E i \in Completed(1), j \in Completed(2), k \in Started(1) :
          j < i /\ Line(1, k).timestamp < Line(1, i).timestamp


\* C2: for every request that arrives with a non-empty X-Request-ID header H,
\* the 'Request started' line and the 'Request completed' line both carry
\* requestId = H, in both services.
C2_HeaderOnBothLines ==
    \A r \in Reqs :
        (Accepted(r) /\ Truthy(reqs[r].header)) =>
            \A i \in Started(r) \cup Completed(r) : Line(r, i).requestId = reqs[r].header

\* C3: a request whose handler failed with an unhandled fault (it is settled:
\* answered by the framework, or left without an answer) has a 'Request
\* completed' line with statusCode 500 and a non-empty requestId.
C3_CompletionAfterFault ==
    \A r \in Reqs :
        (reqs[r].fault /\ reqs[r].pc \in {"done", "hung"}) =>
            \E i \in Completed(r) :
                /\ Line(r, i).statusCode = 500
                /\ Line(r, i).requestId.t = "string"
                /\ Line(r, i).requestId.s # <<>>

\* C4: every request whose response is final has exactly one observation in
\* http_request_duration_seconds, so that the observations of a service are
\* as many as its finalized requests.
C4_OneObservationPerRequest ==
    \A svc \in Services :
        Len(hist[svc]) = Cardinality({r \in Reqs : reqs[r].svc = svc /\ Finalized(r)})

\* C5: the middleware leaves the response as the handler made it: what
\* reaches the original res.end (the status code, the chunk, the encoding) is
\* what the handler passed, once; and the 'finish' listener changes neither.
C5_ResponseUnchanged ==
    \A r \in Reqs :
        /\ reqs[r].delivered = reqs[r].sent
        /\ Len(reqs[r].sent) <= 1
        /\ Finalized(r) => /\ Len(reqs[r].delivered) = 1
                           /\ reqs[r].delivered[1].status = reqs[r].statusCode

\* api-service-1 has passed on a res.json answer (chunk, 'utf8') with status
\* 500 and a one-argument res.end(text)
C5_Witness ==
    /\ reqs[1].svc = S1 /\ reqs[1].pc = "done"
    /\ reqs[1].delivered[1].status = 500 /\ reqs[1].delivered[1].args[2] = Utf8
    /\ reqs[2].svc = S1 /\ reqs[2].pc = "done"
    /\ reqs[2].delivered[1].args = <<Body("metrics", 0), Undefined>>

\* C6: when writing the completion line raises, the response the handler
\* produced is still finalized and delivered unchanged: every res.end call of
\* a handler reaches the client as it was made.
C6_SinkFailureContained ==
    \A r \in Reqs :
        Len(reqs[r].sent) >= 1 =>
            /\ Len(reqs[r].delivered) >= 1
            /\ reqs[r].delivered[1] = reqs[r].sent[1]

\* C7: a request whose X-Request-ID header is absent or empty is logged with
\* a generated identifier that is never the empty string.
C7_GeneratedIdNonEmpty ==
    \A r \in Reqs :
        (Accepted(r) /\ ~Truthy(reqs[r].header)) =>
            \A i \in Started(r) :
                Line(r, i).requestId.t = "string" /\ Line(r, i).requestId.s # <<>>

\* the lines of r that have a requestId field
WithRequestId(r) ==
    {i \in 1 .. Len(log[reqs[r].svc]) :
        /\ log[reqs[r].svc][i].req = r
        /\ log[reqs[r].svc][i].requestId # Undefined}

\* C8: all lines written while serving one request that have a requestId
\* field carry the same value.
C8_RequestIdStable ==
    \A r \in Reqs :
        Accepted(r) =>
            \A i \in WithRequestId(r), j \in WithRequestId(r) :
                Line(r, i).requestId = Line(r, j).requestId


Range(f) == {f[i] : i \in DOMAIN f}

HeavyTaskReqs == {r \in Reqs : Accepted(r) /\ reqs[r].route = "/heavy-task"}

\* C9, the part every state satisfies: a /heavy-task request has one of the
\* five delays; it has no response while its timer is pending and exactly one
\* afterwards, either 500 with the error body or 200 with 'Completed in
\* <delay>ms'; and the response is not sent before start + delay.
C9_OneResponseAfterTimer ==
    \A r \in HeavyTaskReqs :
        /\ reqs[r].delay \in Range(delays)
        /\ Len(reqs[r].sent) <= 1
        /\ reqs[r].pc = "timer" => reqs[r].sent = <<>>
        /\ reqs[r].pc # "timer" =>
              /\ Len(reqs[r].sent) = 1
              /\ \/ /\ reqs[r].sent[1].status = 500
                    /\ reqs[r].sent[1].args[1] = Body("Internal Server Error", 0)
                 \/ /\ reqs[r].sent[1].status = 200
                    /\ reqs[r].sent[1].args[1] = Body("Completed in", reqs[r].delay)
        /\ \A i \in Completed(r) : Line(r, i).timestamp >= reqs[r].start + reqs[r].delay

\* C9: GET /heavy-task sends exactly one response per request, not before its
\* timer fires, either the 500 or the 200, and with timers that fire every
\* accepted request is eventually answered, whatever else is in flight.
C9_HeavyTaskAnswersOnce ==
    /\ []C9_OneResponseAfterTimer
    /\ \A r \in Reqs : (r \in HeavyTaskReqs) ~> (Len(reqs[r].sent) = 1)

\* two /heavy-task requests were in flight together; one was answered 200
\* with its delay, the other 500
C9_Witness ==
    /\ HeavyTaskReqs = {1, 2}
    /\ reqs[1].pc = "done" /\ reqs[2].pc = "done"
    /\ reqs[2].start < reqs[1].start + reqs[1].delay
    /\ reqs[1].sent[1] = [status |-> 200, args |-> <<Body("Completed in", 3000), Utf8>>]
    /\ reqs[2].sent[1].status = 500

PeerReqs(svc) == {r \in Reqs : Accepted(r) /\ reqs[r].svc = svc /\ reqs[r].route = PeerRoute(svc)}

\* C10: in the peer-call routes a call that succeeded is answered 200 and
\* adds one observation (GET, <route>, "200"); a call that failed is answered
\* 500 with the error body, adds no observation and is not rethrown; either
\* way exactly one response is sent.
C10_PeerCall ==
    \A svc \in Services :
        /\ \A i \in 1 .. Len(hist[svc]) : hist[svc][i] = Observation(PeerRoute(svc))
        /\ Len(hist[svc]) =
              Cardinality({r \in PeerReqs(svc) : LinesOf(r, "Successfully called") # {}})
        /\ \A r \in PeerReqs(svc) :
              /\ reqs[r].pc \in {"peer", "flushing", "done"}
              /\ reqs[r].pc = "peer" =>
                    /\ reqs[r].sent = <<>>
                    /\ LinesOf(r, "Successfully called") \cup LinesOf(r, "Failed to call") = {}
              /\ reqs[r].pc # "peer" =>
                    /\ Len(reqs[r].sent) = 1
                    /\ \/ /\ LinesOf(r, "Successfully called") # {}
                          /\ LinesOf(r, "Failed to call") = {}
                          /\ reqs[r].sent[1] = [status |-> 200, args |-> <<Body("Called peer", 0), Utf8>>]
                       \/ /\ LinesOf(r, "Failed to call") # {}
                          /\ LinesOf(r, "Successfully called") = {}
                          /\ reqs[r].sent[1] = [status |-> 500, args |-> <<Body("Failed to call", 0), Utf8>>]

\* in each service one call to the peer was made; one succeeded, one failed
C10_Witness ==
    /\ PeerReqs(S1) = {1} /\ PeerReqs(S2) = {2}
    /\ reqs[1].pc = "done" /\ reqs[2].pc = "done"
    /\ reqs[1].sent[1].status = 500 /\ hist[S1] = <<>>
    /\ reqs[2].sent[1].status = 200 /\ hist[S2] = <<Observation("/test-service-1")>>

====
